---- MODULE Spec2Model ----
(***************************************************************************)
(* SSHFSMountHandler (src/sshfs_mount/sshfs_mount_handler.cpp): the        *)
(* lifecycle of one sshfs mount.  One logical task runs start_impl and     *)
(* stop_impl step by step (pc); the sshfs_server subprocess writes to its  *)
(* pipes and exits concurrently; the Qt event loop hands the subprocess's  *)
(* notifications to the connected slots.                                   *)
(***************************************************************************)
EXTENDS Integers, Sequences, FiniteSets, TLC

VARIABLES
    state,        \* lifecycle of the handler (MountHandler::start / stop)
    pc,           \* position of the handler's task inside start_impl / stop_impl
    server,       \* TRUE iff the ServerVariant handed to start holds a non-null server
    trace,        \* calls made on the collaborators during start, in order
    probes,       \* exit codes of the three has_sshfs probes (NotRun if not executed)
    has,          \* outcome of has_sshfs
    install_out,  \* what the install command did (NotRun, an exit code, or Exitless)
    result,       \* what the last start / stop gave its caller
    process,      \* the std::unique_ptr<Process> member: "null" or "set"
    config_host,  \* config.host: "" until resolved
    stop_conn,    \* connection Process::finished -> QEventLoop::quit is engaged
    running_conn, \* connection ready_read_standard_output -> lambda is engaged
    quits,        \* number of QEventLoop::quit() calls made on the wait's event loop
    token_seen,   \* the lambda found "Connected" in what it read
    seen_alive,   \* the subprocess was alive when the lambda found the token
    handed_alive, \* the subprocess was alive when the output handed to the lambda
                  \* so far first contained the token
    child,        \* the subprocess itself: [alive, code, crashed]
    qproc,        \* the Process object's view: [running, exit_code, error]
    out_buf,      \* standard output written by the subprocess and not yet read
    all_out,      \* all standard output written by the subprocess so far
    err_buf,      \* standard error written by the subprocess and not yet read
    all_err,      \* all standard error written by the subprocess so far
    written,      \* number of writes the subprocess has made: [out, err]
    inspected,    \* start_impl's local process_state, once taken
    terminated,   \* number of terminate() requests sent
    waited,       \* milliseconds spent so far in wait_for_finished
    last,         \* the last call made of start(), stop() or the destructor, and how it was taken
    dtor,         \* ~SSHFSMountHandler: "no", "running" or "done"
    dtor_entry,   \* the number of terminate() requests sent before the destructor ran
    escaped,      \* an exception left the destructor
    obs,          \* signals emitted to the two logging observers and not yet handled
    log           \* kinds of log records written by the observers and the destructor

vars == <<state, pc, server, trace, probes, has, install_out, result, process,
          config_host, stop_conn, running_conn, quits, token_seen, seen_alive,
          handed_alive,
          child, qproc, out_buf, all_out, err_buf, all_err, written, inspected,
          terminated, waited, last, dtor, dtor_entry, escaped, obs, log>>

handlerVars == <<state, server, trace, probes, has, install_out, result, process,
                 config_host, inspected>>
waitVars    == <<stop_conn, running_conn, quits, token_seen, seen_alive, handed_alive>>
childVars   == <<child, qproc, out_buf, all_out, err_buf, all_err, written>>
stopVars    == <<terminated, waited>>
dtorVars    == <<dtor, dtor_entry, escaped>>
obsVars     == <<obs, log>>

----------------------------------------------------------------------------
(* Bounds of the model *)

\* number of writes the subprocess makes to its standard output
MaxWrites == 2
\* number of writes the subprocess makes to its standard error
MaxErrWrites == 1
\* granularity of the clock of wait_for_finished, in milliseconds
TickMs == 2500

(* Program constants *)

\* "Magic number returned by sshfs_server"
SSHFSMissingExit == 9
\* deadline handed to wait_for_finished, in milliseconds
StopTimeoutMs == 5000

\* "Magic string printed by sshfs_server"
Connected == <<"C", "o", "n", "n", "e", "c", "t", "e", "d">>

----------------------------------------------------------------------------
(* Inputs *)

NotRun   == -1
Exitless == -2
\* std::optional<int> without a value
NoExitCode == -1

ProbeCodes   == {0, 1, 2}
InstallCodes == {0, 1}
ExitCodes    == {0, 1, SSHFSMissingExit}
\* what the subprocess may write to standard output in one write
Chunks == { SubSeq(Connected, 1, 4), SubSeq(Connected, 5, 9), Connected, <<"c", "o", "n", "n">> }
\* what the subprocess may write to standard error in one write
ErrTexts == { "E1", "E2" }

----------------------------------------------------------------------------
(* QByteArray::contains *)
Contains(s, t) ==
    \E i \in 1..(Len(s) - Len(t) + 1) : SubSeq(s, i, i + Len(t) - 1) = t

(* what an operation gave its caller: the exception's type, the fixed part *)
(* of its message and the subprocess standard error the message quotes     *)
NoResult == [op |-> "none", kind |-> "none", msg |-> "", stderr |-> <<>>]
Ok(op) == [op |-> op, kind |-> "ok", msg |-> "", stderr |-> <<>>]
Thrown(op, kind, msg, stderr) == [op |-> op, kind |-> kind, msg |-> msg, stderr |-> stderr]

Init ==
    /\ state = "Constructed"
    /\ pc = "idle"
    /\ server = FALSE
    /\ trace = <<>>
    /\ probes = [snap |-> NotRun, list |-> NotRun, dir |-> NotRun]
    /\ has = "none"
    /\ install_out = NotRun
    /\ result = NoResult
    /\ process = "null"
    /\ config_host = ""
    /\ stop_conn = FALSE
    /\ running_conn = FALSE
    /\ quits = 0
    /\ token_seen = FALSE
    /\ seen_alive = FALSE
    /\ handed_alive = FALSE
    /\ child = [alive |-> FALSE, code |-> NoExitCode, crashed |-> FALSE]
    /\ qproc = [running |-> FALSE, exit_code |-> NoExitCode, error |-> FALSE]
    /\ out_buf = <<>>
    /\ all_out = <<>>
    /\ err_buf = <<>>
    /\ all_err = <<>>
    /\ written = [out |-> 0, err |-> 0]
    /\ inspected = [taken |-> FALSE, exit_code |-> NoExitCode, error |-> FALSE]
    /\ terminated = 0
    /\ waited = 0
    /\ last = "none"
    /\ dtor = "no"
    /\ dtor_entry = 0
    /\ escaped = FALSE
    /\ obs = {}
    /\ log = {}

----------------------------------------------------------------------------
(* start_impl run again on a handler that has been stopped *)
StartAgain(srv) ==
    /\ state \in {"Constructed", "Stopped"}
    /\ pc = "idle"
    /\ dtor = "no"
    /\ last' = "start"
    /\ state' = "Starting"
    /\ server' = srv
    /\ pc' = "session"
    /\ UNCHANGED <<trace, probes, has, install_out, result, process, config_host, inspected>>
    /\ UNCHANGED <<waitVars, childVars, stopVars>>
    /\ UNCHANGED <<dtorVars, obsVars>>

(* MountHandler::start: the public entry; start_impl runs only on a handler *)
(* that has not been started.                                               *)
Start(srv) ==
    /\ state = "Constructed"
    /\ pc = "idle"
    /\ dtor = "no"
    /\ last' = "start"
    /\ state' = "Starting"
    /\ server' = srv
    /\ pc' = "session"
    /\ UNCHANGED <<trace, probes, has, install_out, result, process, config_host, inspected>>
    /\ UNCHANGED <<waitVars, childVars, stopVars>>
    /\ UNCHANGED <<dtorVars, obsVars>>

(* MountHandler::start on a handler that has been started before: the call *)
(* is rejected and start_impl does not run                                 *)
StartRejected ==
    /\ state # "Constructed"
    /\ pc = "idle"
    /\ obs = {}
    /\ dtor = "no"
    /\ last' = "start rejected"
    /\ pc' = pc
    /\ UNCHANGED <<handlerVars, waitVars, childVars, stopVars, dtorVars, obsVars>>

(* start_impl failing with an exception: the handler does not become Running *)
StartThrows(kind, msg, stderr) ==
    /\ result' = Thrown("start", kind, msg, stderr)
    /\ pc' = "idle"
    /\ state' = state

(* start_impl returning normally: the handler becomes Running *)
StartReturns ==
    /\ result' = Ok("start")
    /\ state' = "Running"
    /\ pc' = "idle"

(* SSHSession session{vm->ssh_hostname(), ...} *)
OpenSession ==
    /\ pc = "session"
    /\ trace' = trace \o <<"ssh_hostname", "SSHSession">>
    /\ pc' = "which_snap"
    /\ UNCHANGED <<state, server, probes, has, install_out, result, process, config_host, inspected>>
    /\ UNCHANGED <<waitVars, childVars, stopVars>>
    /\ UNCHANGED <<last, dtorVars, obsVars>>

(* the session opened again after a failure *)
OpenSessionFailsRetry ==
    /\ pc = "session"
    /\ trace' = trace \o <<"ssh_hostname", "SSHSession">>
    /\ pc' = "session"
    /\ UNCHANGED <<state, result, server, probes, has, install_out, process, config_host, inspected>>
    /\ UNCHANGED <<waitVars, childVars, stopVars>>
    /\ UNCHANGED <<last, dtorVars, obsVars>>

(* the SSHSession constructor failing on a transport error: start_impl has *)
(* no handler around it, the exception leaves start_impl                   *)
OpenSessionFails ==
    /\ pc = "session"
    /\ trace' = trace \o <<"ssh_hostname", "SSHSession">>
    /\ StartThrows("ConnectionFailure", "", <<>>)
    /\ UNCHANGED <<server, probes, has, install_out, process, config_host, inspected>>
    /\ UNCHANGED <<waitVars, childVars, stopVars>>
    /\ UNCHANGED <<last, dtorVars, obsVars>>

(* the negation dropped *)
AfterProbeInverted(found) == IF found THEN "progress" ELSE "hostname"

(* start_impl: if (!has_sshfs(...)) { progress; install }: where start_impl *)
(* goes once has_sshfs has returned found                                   *)
AfterProbe(found) == IF ~found THEN "progress" ELSE "hostname"

(* exit_code() != 0 of "which snap" *)
SnapMissing(code) == code # 0

(* exit_code() == 0 of "sudo snap list multipass-sshfs" *)
Installed(code) == code = 0

(* the test turned around *)
ClassicMissingInverted(code) == code = 0

(* exit_code() != 0 of "[ -e /snap ]" *)
ClassicMissing(code) == code # 0

(* has_sshfs: session.exec("which snap").exit_code() != 0 -> throw *)
WhichSnap(code) ==
    /\ pc = "which_snap"
    /\ trace' = Append(trace, "which snap")
    /\ probes' = [probes EXCEPT !.snap = code]
    /\ IF SnapMissing(code)
          THEN /\ has' = "unsupported"
               /\ StartThrows("runtime_error", "Snap support needs to be installed", <<>>)
          ELSE /\ pc' = "snap_list"
               /\ UNCHANGED <<has, result, state>>
    /\ UNCHANGED <<server, install_out, process, config_host, inspected>>
    /\ UNCHANGED <<waitVars, childVars, stopVars>>
    /\ UNCHANGED <<last, dtorVars, obsVars>>

(* has_sshfs: session.exec("sudo snap list multipass-sshfs").exit_code() == 0 *)
(* -> return true                                                              *)
SnapList(code) ==
    /\ pc = "snap_list"
    /\ trace' = Append(trace, "snap list")
    /\ probes' = [probes EXCEPT !.list = code]
    /\ IF Installed(code)
          THEN /\ has' = "ready"
               /\ pc' = AfterProbe(TRUE)
          ELSE /\ has' = has
               /\ pc' = "snap_dir"
    /\ UNCHANGED <<state, server, install_out, result, process, config_host, inspected>>
    /\ UNCHANGED <<waitVars, childVars, stopVars>>
    /\ UNCHANGED <<last, dtorVars, obsVars>>

(* has_sshfs: session.exec("[ -e /snap ]").exit_code() != 0 -> throw; *)
(* otherwise return false                                              *)
SnapDir(code) ==
    /\ pc = "snap_dir"
    /\ trace' = Append(trace, "[ -e /snap ]")
    /\ probes' = [probes EXCEPT !.dir = code]
    /\ IF ClassicMissing(code)
          THEN /\ has' = "unsupported"
               /\ StartThrows("runtime_error", "Classic snap support is not enabled", <<>>)
          ELSE /\ has' = "not_ready"
               /\ pc' = AfterProbe(FALSE)
               /\ UNCHANGED <<result, state>>
    /\ UNCHANGED <<server, install_out, process, config_host, inspected>>
    /\ UNCHANGED <<waitVars, childVars, stopVars>>
    /\ UNCHANGED <<last, dtorVars, obsVars>>

(* the visitor without its if (server) *)
ProgressNoNullCheck ==
    /\ pc = "progress"
    /\ trace' = Append(trace, "Write")
    /\ pc' = "install"
    /\ UNCHANGED <<state, server, probes, has, install_out, result, process, config_host, inspected>>
    /\ UNCHANGED <<waitVars, childVars, stopVars>>
    /\ UNCHANGED <<last, dtorVars, obsVars>>

(* std::visit(visitor, server): if (server) server->Write(reply) *)
Progress ==
    /\ pc = "progress"
    /\ trace' = IF server THEN Append(trace, "Write") ELSE trace
    /\ pc' = "install"
    /\ UNCHANGED <<state, server, probes, has, install_out, result, process, config_host, inspected>>
    /\ UNCHANGED <<waitVars, childVars, stopVars>>
    /\ UNCHANGED <<last, dtorVars, obsVars>>

(* the function without its catch clause *)
InstallErrorNoCatch(out) ==
    IF out = Exitless THEN "ExitlessSSHProcessException" ELSE "SSHFSMissingError"

(* what install_sshfs_for throws when the command gave out # 0: the throw  *)
(* in the try block, and the throw in the catch clause                     *)
InstallError(out) ==
    IF out = Exitless THEN "SSHFSMissingError" ELSE "SSHFSMissingError"

(* the installer's exit code not looked at *)
InstallIgnoresFailure(out) ==
    /\ pc = "install"
    /\ trace' = Append(trace, "install")
    /\ install_out' = out
    /\ pc' = "hostname"
    /\ UNCHANGED <<result, state>>
    /\ UNCHANGED <<server, probes, has, process, config_host, inspected>>
    /\ UNCHANGED <<waitVars, childVars, stopVars>>
    /\ UNCHANGED <<last, dtorVars, obsVars>>

(* install_sshfs_for: exec("sudo snap install multipass-sshfs");           *)
(* exit_code(timeout) != 0 -> throw SSHFSMissingError;                      *)
(* catch (ExitlessSSHProcessException) -> throw SSHFSMissingError           *)
Install(out) ==
    /\ pc = "install"
    /\ trace' = Append(trace, "install")
    /\ install_out' = out
    /\ IF out = Exitless \/ out # 0
          THEN StartThrows(InstallError(out), "", <<>>)
          ELSE /\ pc' = "hostname"
               /\ UNCHANGED <<result, state>>
    /\ UNCHANGED <<server, probes, has, process, config_host, inspected>>
    /\ UNCHANGED <<waitVars, childVars, stopVars>>
    /\ UNCHANGED <<last, dtorVars, obsVars>>

(* the address of the session reused for the configuration *)
ResolveHostCached ==
    /\ pc = "hostname"
    /\ trace' = trace
    /\ config_host' = "resolved"
    /\ pc' = "make_process"
    /\ UNCHANGED <<state, server, probes, has, install_out, result, process, inspected>>
    /\ UNCHANGED <<waitVars, childVars, stopVars>>
    /\ UNCHANGED <<last, dtorVars, obsVars>>

(* config.host = vm->ssh_hostname() *)
ResolveHost ==
    /\ pc = "hostname"
    /\ trace' = Append(trace, "ssh_hostname")
    /\ config_host' = "resolved"
    /\ pc' = "make_process"
    /\ UNCHANGED <<state, server, probes, has, install_out, result, process, inspected>>
    /\ UNCHANGED <<waitVars, childVars, stopVars>>
    /\ UNCHANGED <<last, dtorVars, obsVars>>

(* process = platform::make_sshfs_server_process(config), and the two *)
(* logging observers                                                    *)
MakeProcess ==
    /\ pc = "make_process"
    /\ trace' = Append(trace, "make_sshfs_server_process")
    /\ process' = "set"
    /\ pc' = "connect"
    /\ UNCHANGED <<state, server, probes, has, install_out, result, config_host, inspected>>
    /\ UNCHANGED <<waitVars, childVars, stopVars>>
    /\ UNCHANGED <<last, dtorVars, obsVars>>

----------------------------------------------------------------------------
(* start_and_block_until_connected *)

(* stop_conn = connect(process, finished, &event_loop, quit);              *)
(* running_conn = connect(process, ready_read_standard_output, lambda)     *)
ConnectWatchers ==
    /\ pc = "connect"
    /\ stop_conn' = TRUE
    /\ running_conn' = TRUE
    /\ pc' = "process_start"
    /\ UNCHANGED <<quits, token_seen, seen_alive, handed_alive>>
    /\ UNCHANGED <<handlerVars, childVars, stopVars>>
    /\ UNCHANGED <<last, dtorVars, obsVars>>

(* process->start(): the subprocess is spawned, or fails to start, which   *)
(* sets the process error and emits error_occurred but never finished      *)
ProcessStart(spawned) ==
    /\ pc = "process_start"
    /\ trace' = Append(trace, "start")
    /\ IF spawned
          THEN /\ child' = [child EXCEPT !.alive = TRUE]
               /\ qproc' = [qproc EXCEPT !.running = TRUE]
          ELSE /\ child' = child
               /\ qproc' = [qproc EXCEPT !.error = TRUE]
    /\ obs' = IF spawned THEN obs ELSE obs \cup {"error_occurred"}
    /\ pc' = "exec"
    /\ UNCHANGED <<state, server, probes, has, install_out, result, process, config_host, inspected>>
    /\ UNCHANGED <<out_buf, all_out, err_buf, all_err, written>>
    /\ UNCHANGED <<waitVars, stopVars>>
    /\ UNCHANGED <<last, dtorVars, log>>

(* ready_read_standard_output is pending for the lambda *)
Readable == running_conn /\ out_buf # <<>>

(* the subprocess has exited and the Process object has not handled it yet *)
Died == ~child.alive /\ qproc.running

(* process->read_all_standard_output().contains("Connected"): the read     *)
(* takes what has arrived since the last read                              *)
LambdaHit == Readable /\ Contains(out_buf, Connected)

(* the standard output the lambda has been handed so far *)
Received == SubSeq(all_out, 1, Len(all_out) - Len(out_buf))

(* what the Process object emits when it handles the subprocess's exit:    *)
(* finished with the exit state, and error_occurred before it after a crash *)
EmitOnExit ==
    {IF child.code = 0 /\ ~child.crashed THEN "finished_ok" ELSE "finished_bad"}
        \cup (IF child.crashed THEN {"error_occurred"} ELSE {})

(* One pass of the event loop over the subprocess's pending notifications. *)
(* Output is handed to the lambda first; an exit is then recorded in the   *)
(* Process object and finished is emitted.  quit() only asks the loop to   *)
(* leave: it does not stop the pass that is calling it.                    *)
Notify ==
    /\ Readable \/ Died
    /\ obs = {}
    /\ out_buf' = IF Readable THEN <<>> ELSE out_buf
    /\ token_seen' = (token_seen \/ LambdaHit)
    /\ seen_alive' = IF LambdaHit /\ ~token_seen THEN child.alive ELSE seen_alive
    /\ handed_alive' = IF Readable /\ ~Contains(Received, Connected) /\ Contains(all_out, Connected)
                          THEN child.alive
                          ELSE handed_alive
    /\ qproc' = IF Died
                   THEN [running |-> FALSE, exit_code |-> child.code, error |-> child.crashed]
                   ELSE qproc
    /\ quits' = quits + (IF LambdaHit THEN 1 ELSE 0) + (IF Died /\ stop_conn THEN 1 ELSE 0)
    /\ obs' = IF Died THEN obs \cup EmitOnExit ELSE obs
    /\ UNCHANGED <<stop_conn, running_conn, child, all_out, err_buf, all_err, written>>

(* event_loop.exec(): runs passes until quit() has been called *)
ExecPass ==
    /\ pc = "exec"
    /\ quits = 0
    /\ Notify
    /\ pc' = pc
    /\ UNCHANGED <<handlerVars, stopVars>>
    /\ UNCHANGED <<last, dtorVars, log>>

ExecReturn ==
    /\ pc = "exec"
    /\ quits > 0
    /\ obs = {}
    /\ pc' = "disconnect"
    /\ UNCHANGED <<handlerVars, waitVars, childVars, stopVars>>
    /\ UNCHANGED <<last, dtorVars, obsVars>>

(* QObject::disconnect(stop_conn); QObject::disconnect(running_conn) *)
Disconnect ==
    /\ pc = "disconnect"
    /\ stop_conn' = FALSE
    /\ running_conn' = FALSE
    /\ pc' = "inspect"
    /\ UNCHANGED <<quits, token_seen, seen_alive, handed_alive>>
    /\ UNCHANGED <<handlerVars, childVars, stopVars>>
    /\ UNCHANGED <<last, dtorVars, obsVars>>

(* process->process_state() *)
process_state == [exit_code |-> qproc.exit_code, error |-> qproc.error]

(* the error flag tested before the exit code *)
IsMissingUnlessError(ps) == ps.exit_code = SSHFSMissingExit /\ ~ps.error

(* process_state.exit_code == 9 *)
IsMissing(ps) == ps.exit_code = SSHFSMissingExit

(* the exit code taken as a plain int *)
IsFailureNonZero(ps) == ps.exit_code > 0 \/ ps.error

(* process_state.exit_code || process_state.error, exit_code being a       *)
(* std::optional<int>                                                      *)
IsFailure(ps) == ps.exit_code # NoExitCode \/ ps.error

(* the end of start_impl: "Check in case sshfs_server stopped" *)
Inspect ==
    /\ pc = "inspect"
    /\ inspected' = [taken |-> TRUE, exit_code |-> process_state.exit_code,
                                    error |-> process_state.error]
    /\ IF IsMissing(process_state)
          THEN /\ StartThrows("SSHFSMissingError", "", <<>>)
               /\ err_buf' = err_buf
          ELSE IF IsFailure(process_state)
                  THEN /\ StartThrows("runtime_error", "failure_message", err_buf)
                       /\ err_buf' = <<>>
                  ELSE /\ StartReturns
                       /\ err_buf' = err_buf
    /\ UNCHANGED <<server, trace, probes, has, install_out, process, config_host>>
    /\ UNCHANGED <<child, qproc, out_buf, all_out, all_err, written>>
    /\ UNCHANGED <<waitVars, stopVars>>
    /\ UNCHANGED <<last, dtorVars, obsVars>>

(* Between start and stop the application's event loop runs *)
IdlePass ==
    /\ pc = "idle"
    /\ process = "set"
    /\ dtor = "no"
    /\ Notify
    /\ pc' = pc
    /\ UNCHANGED <<handlerVars, stopVars>>
    /\ UNCHANGED <<last, dtorVars, log>>

----------------------------------------------------------------------------
(* The sshfs_server subprocess, for as long as the handler exists *)

SubprocessWrite(chunk) ==
    /\ child.alive
    /\ dtor # "done"
    /\ written.out < MaxWrites
    /\ out_buf' = out_buf \o chunk
    /\ all_out' = all_out \o chunk
    /\ written' = [written EXCEPT !.out = @ + 1]
    /\ UNCHANGED <<child, qproc, err_buf, all_err>>
    /\ UNCHANGED <<pc, handlerVars, waitVars, stopVars>>
    /\ UNCHANGED <<last, dtorVars, obsVars>>

SubprocessWriteErr(text) ==
    /\ child.alive
    /\ dtor # "done"
    /\ written.err < MaxErrWrites
    /\ err_buf' = Append(err_buf, text)
    /\ all_err' = Append(all_err, text)
    /\ written' = [written EXCEPT !.err = @ + 1]
    /\ UNCHANGED <<child, qproc, out_buf, all_out>>
    /\ UNCHANGED <<pc, handlerVars, waitVars, stopVars>>
    /\ UNCHANGED <<last, dtorVars, obsVars>>

SubprocessExit(code, crashed) ==
    /\ child.alive
    /\ dtor # "done"
    /\ child' = [alive |-> FALSE, code |-> code, crashed |-> crashed]
    /\ UNCHANGED <<qproc, out_buf, all_out, err_buf, all_err, written>>
    /\ UNCHANGED <<pc, handlerVars, waitVars, stopVars>>
    /\ UNCHANGED <<last, dtorVars, obsVars>>

----------------------------------------------------------------------------
(* MountHandler::stop runs stop_impl on a handler that is Running, or that  *)
(* is still Stopping because an earlier stop timed out                     *)
StopActsAlways == TRUE

StopActs == state \in {"Running", "Stopping"}

(* MountHandler::stop: the public entry, called by a client on a running   *)
(* handler                                                                 *)
Stop ==
    /\ StopActs
    /\ state = "Running"
    /\ pc = "idle"
    /\ obs = {}
    /\ dtor = "no"
    /\ last' = "stop"
    /\ state' = "Stopping"
    /\ pc' = "terminate"
    /\ UNCHANGED <<server, trace, probes, has, install_out, result, process, config_host, inspected>>
    /\ UNCHANGED <<waitVars, childVars, stopVars>>
    /\ UNCHANGED <<dtorVars, obsVars>>

(* MountHandler::stop called by a client on any other handler: a no-op *)
StopNoop ==
    /\ ~StopActs
    /\ pc = "idle"
    /\ obs = {}
    /\ dtor = "no"
    /\ last' = "stop no-op"
    /\ pc' = pc
    /\ UNCHANGED <<handlerVars, waitVars, childVars, stopVars, dtorVars, obsVars>>

(* ~SSHFSMountHandler: try { stop(); } *)
Destroy ==
    /\ pc = "idle"
    /\ obs = {}
    /\ dtor = "no"
    /\ dtor_entry' = terminated
    /\ last' = "destroy"
    /\ IF StopActs
          THEN /\ state' = "Stopping"
               /\ pc' = "terminate"
               /\ dtor' = "running"
          ELSE /\ state' = state
               /\ pc' = pc
               /\ dtor' = "done"
    /\ UNCHANGED <<server, trace, probes, has, install_out, result, process, config_host, inspected>>
    /\ UNCHANGED <<waitVars, childVars, stopVars, escaped, obsVars>>

(* ~SSHFSMountHandler: catch (const std::exception& e): what the handler   *)
(* clause takes                                                            *)
StdExceptions == {"runtime_error", "SSHFSMissingError", "ConnectionFailure"}

DtorCatchesMissingOnly(kind) == kind = "SSHFSMissingError"

DtorCatches(kind) == kind \in StdExceptions

(* stop_impl: process->terminate() *)
Terminate ==
    /\ pc = "terminate"
    /\ terminated' = terminated + 1
    /\ waited' = 0
    /\ pc' = "wait"
    /\ UNCHANGED <<handlerVars, waitVars, childVars>>
    /\ UNCHANGED <<last, dtorVars, obsVars>>

(* a shorter deadline *)
DeadlineShort == waited >= TickMs

(* the 5000 ms of wait_for_finished have passed *)
Deadline == waited >= StopTimeoutMs

(* wait_for_finished(5000): time passes while the subprocess is alive *)
WaitTick ==
    /\ pc = "wait"
    /\ child.alive
    /\ ~Deadline
    /\ waited' = IF waited + TickMs > StopTimeoutMs THEN StopTimeoutMs ELSE waited + TickMs
    /\ pc' = pc
    /\ UNCHANGED terminated
    /\ UNCHANGED <<handlerVars, waitVars, childVars>>
    /\ UNCHANGED <<last, dtorVars, obsVars>>

(* stop_impl returning normally: the handler becomes Stopped *)
StopReturns ==
    /\ result' = Ok("stop")
    /\ state' = "Stopped"
    /\ pc' = "idle"
    /\ dtor' = IF dtor = "running" THEN "done" ELSE dtor

(* the handle reset once the subprocess is gone *)
WaitFinishedResets ==
    /\ pc = "wait"
    /\ Died
    /\ qproc' = [running |-> FALSE, exit_code |-> child.code, error |-> child.crashed]
    /\ obs' = obs \cup EmitOnExit
    /\ StopReturns
    /\ process' = "null"
    /\ UNCHANGED <<server, trace, probes, has, install_out, config_host, inspected>>
    /\ UNCHANGED <<child, out_buf, all_out, err_buf, all_err, written>>
    /\ UNCHANGED <<waitVars, stopVars>>
    /\ UNCHANGED <<last, dtor_entry, escaped, log>>

(* wait_for_finished(5000) returns true: the subprocess exited and the     *)
(* Process object takes its exit state                                     *)
WaitFinished ==
    /\ pc = "wait"
    /\ Died
    /\ qproc' = [running |-> FALSE, exit_code |-> child.code, error |-> child.crashed]
    /\ obs' = obs \cup EmitOnExit
    /\ StopReturns
    /\ UNCHANGED <<server, trace, probes, has, install_out, process, config_host, inspected>>
    /\ UNCHANGED <<child, out_buf, all_out, err_buf, all_err, written>>
    /\ UNCHANGED <<waitVars, stopVars>>
    /\ UNCHANGED <<last, dtor_entry, escaped, log>>

(* the wait reporting failure on a subprocess that is no longer running *)
WaitAlreadyFinishedThrows ==
    /\ pc = "wait"
    /\ ~child.alive
    /\ ~qproc.running
    /\ result' = Thrown("stop", "runtime_error", "Failed to terminate SSHFS mount process", err_buf)
    /\ err_buf' = <<>>
    /\ state' = state
    /\ pc' = "idle"
    /\ dtor' = IF dtor = "running" THEN "done" ELSE dtor
    /\ UNCHANGED <<server, trace, probes, has, install_out, process, config_host, inspected>>
    /\ UNCHANGED <<child, qproc, out_buf, all_out, all_err, written>>
    /\ UNCHANGED <<waitVars, stopVars>>
    /\ UNCHANGED <<last, dtor_entry, escaped, obsVars>>

(* terminate and wait on a subprocess whose exit the Process object had    *)
(* already handled: a no-op, not an error                                  *)
WaitAlreadyFinished ==
    /\ pc = "wait"
    /\ ~child.alive
    /\ ~qproc.running
    /\ StopReturns
    /\ UNCHANGED <<server, trace, probes, has, install_out, process, config_host, inspected>>
    /\ UNCHANGED <<childVars, waitVars, stopVars>>
    /\ UNCHANGED <<last, dtor_entry, escaped, obsVars>>

(* wait_for_finished(5000) returns false: throw std::runtime_error(         *)
(* "Failed to terminate SSHFS mount process: {read_all_standard_error()}")  *)
WaitTimeout ==
    /\ pc = "wait"
    /\ child.alive
    /\ Deadline
    /\ result' = Thrown("stop", "runtime_error", "Failed to terminate SSHFS mount process", err_buf)
    /\ err_buf' = <<>>
    /\ state' = state
    /\ pc' = "idle"
    /\ dtor' = IF dtor = "running" THEN "done" ELSE dtor
    /\ escaped' = (escaped \/ (dtor = "running" /\ ~DtorCatches("runtime_error")))
    /\ log' = IF dtor = "running" /\ DtorCatches("runtime_error")
                 THEN log \cup {"Failed to gracefully stop mount"}
                 ELSE log
    /\ UNCHANGED <<server, trace, probes, has, install_out, process, config_host, inspected>>
    /\ UNCHANGED <<child, qproc, out_buf, all_out, all_err, written>>
    /\ UNCHANGED <<waitVars, stopVars>>
    /\ UNCHANGED <<last, dtor_entry, obs>>

----------------------------------------------------------------------------
(* The two observers start_impl registers on the Process object.  They run *)
(* inside the emission of the signal, before the code that follows it, and  *)
(* error_occurred is emitted before finished.                              *)

(* finished: log "has stopped", or "has stopped unsuccessfully" *)
FinishedObserver ==
    /\ "error_occurred" \notin obs
    /\ \E e \in obs \cap {"finished_ok", "finished_bad"} :
          /\ obs' = obs \ {e}
          /\ log' = log \cup {IF e = "finished_ok" THEN "stopped" ELSE "stopped unsuccessfully"}
    /\ pc' = pc
    /\ UNCHANGED <<handlerVars, waitVars, childVars, stopVars, last, dtorVars>>

(* the error event also asking the wait's event loop to quit *)
ErrorObserverQuits ==
    /\ "error_occurred" \in obs
    /\ obs' = obs \ {"error_occurred"}
    /\ log' = log \cup {"error"}
    /\ quits' = quits + 1
    /\ pc' = pc
    /\ UNCHANGED <<stop_conn, running_conn, token_seen, seen_alive, handed_alive>>
    /\ UNCHANGED <<handlerVars, childVars, stopVars, last, dtorVars>>

(* error_occurred: log "There was an error with sshfs_server" *)
ErrorObserver ==
    /\ "error_occurred" \in obs
    /\ obs' = obs \ {"error_occurred"}
    /\ log' = log \cup {"error"}
    /\ pc' = pc
    /\ UNCHANGED <<handlerVars, waitVars, childVars, stopVars, last, dtorVars>>

----------------------------------------------------------------------------
Next ==
    \/ \E srv \in BOOLEAN : Start(srv)
    \/ StartRejected
    \/ OpenSession
    \/ OpenSessionFails
    \/ \E code \in ProbeCodes : WhichSnap(code)
    \/ \E code \in ProbeCodes : SnapList(code)
    \/ \E code \in ProbeCodes : SnapDir(code)
    \/ Progress
    \/ \E out \in InstallCodes \cup {Exitless} : Install(out)
    \/ ResolveHost
    \/ MakeProcess
    \/ ConnectWatchers
    \/ \E spawned \in BOOLEAN : ProcessStart(spawned)
    \/ ExecPass
    \/ ExecReturn
    \/ Disconnect
    \/ Inspect
    \/ IdlePass
    \/ \E chunk \in Chunks : SubprocessWrite(chunk)
    \/ \E text \in ErrTexts : SubprocessWriteErr(text)
    \/ \E code \in ExitCodes, crashed \in BOOLEAN : SubprocessExit(code, crashed)
    \/ Stop
    \/ StopNoop
    \/ Destroy
    \/ Terminate
    \/ WaitTick
    \/ WaitFinished
    \/ WaitAlreadyFinished
    \/ WaitTimeout
    \/ FinishedObserver
    \/ ErrorObserver

Spec == Init /\ [][Next]_vars

(* The event loop of the wait delivers what is pending, and start_impl goes *)
(* on once the loop has been told to quit.  Nothing is asked of the         *)
(* subprocess: it may write, exit, or do neither.                           *)
FairSpec ==
    /\ Spec
    /\ WF_vars(ExecPass)
    /\ WF_vars(ExecReturn \/ Disconnect \/ Inspect)
    /\ WF_vars(FinishedObserver \/ ErrorObserver)

----------------------------------------------------------------------------
(* Properties *)

InTrace(x) == \E i \in DOMAIN trace : trace[i] = x
Count(x) == Len(SelectSeq(trace, LAMBDA e : e = x))
Index(x) == CHOOSE i \in DOMAIN trace : trace[i] = x

(* start_impl took the process state and found the subprocess running *)
FoundRunning == inspected.taken /\ inspected.exit_code = NoExitCode /\ ~inspected.error

Started == state \in {"Running", "Stopping", "Stopped"}

(* s is the end of t *)
IsSuffix(s, t) == Len(s) <= Len(t) /\ SubSeq(t, Len(t) - Len(s) + 1, Len(t)) = s

\* C1: once the wait has ended, exit code 9 makes start fail with
\* SSHFSMissingError whatever the error flag and the standard error; any other
\* non-zero exit code, or the error flag, makes it fail with the runtime_error
\* that quotes the subprocess's standard error unchanged.
C1_ExitStateDecidesError ==
    inspected.taken =>
        /\ inspected.exit_code = SSHFSMissingExit
              => result = Thrown("start", "SSHFSMissingError", "", <<>>)
        /\ (/\ inspected.exit_code # SSHFSMissingExit
            /\ inspected.exit_code \notin {0, NoExitCode} \/ inspected.error)
              => result = Thrown("start", "runtime_error", "failure_message", all_err)

C1_Witness ==
    /\ inspected.taken
    /\ inspected.exit_code = SSHFSMissingExit
    /\ inspected.error
    /\ all_err # <<>>
    /\ result.kind = "SSHFSMissingError"

\* C2 (as claimed): if the output handed over while the subprocess is alive
\* contains the token, the wait returns with the token found and the subprocess
\* still running; if the subprocess exits before the token is there, the exit
\* state start_impl takes has the exit code the subprocess reported.
C2_Claim ==
    inspected.taken =>
        /\ handed_alive => token_seen /\ FoundRunning
        /\ ~Contains(Received, Connected) => inspected.exit_code = child.code

\* C3 (as claimed): one wait sees one wake-up, and a wake-up by the token is
\* not overturned by an exit that arrives after it.
C3_Claim ==
    /\ quits <= 1
    /\ (inspected.taken /\ token_seen) => FoundRunning

\* C4 (as claimed): as soon as the output handed over so far contains the
\* token, however it was split, the wait has been woken with the token found.
C4_Claim ==
    Contains(Received, Connected) => token_seen /\ quits > 0

\* C5: start succeeds only if the token was found and the subprocess was found
\* running; if the wait ended without the token, whatever the exit state, start
\* fails and the handler is not Running; if the token was found while the
\* subprocess was alive, start succeeds.
C5_RunningOnlyWhenReady ==
    /\ Started => token_seen /\ FoundRunning
    /\ (result.op = "start" /\ result.kind = "ok") => Started
    /\ (inspected.taken /\ ~token_seen)
          => result.op = "start" /\ result.kind \notin {"ok", "none"} /\ state = "Starting"
    /\ (inspected.taken /\ token_seen /\ seen_alive) => Started

C5_Witness ==
    /\ inspected.taken
    /\ inspected.exit_code = 0
    /\ ~inspected.error
    /\ ~token_seen
    /\ result.op = "start"
    /\ result.kind = "runtime_error"
    /\ state = "Starting"

\* C6: when has_sshfs finds the snap installed, no progress reply is written
\* and the install command is never run; start_impl goes on to resolve the host
\* and make the process.
C6_ReadyNoInstall ==
    has = "ready" =>
        /\ ~InTrace("install")
        /\ ~InTrace("Write")
        /\ install_out = NotRun
        /\ pc \notin {"snap_dir", "progress", "install"}
        /\ process = "set" =>
              SubSeq(trace, 1, 6) = <<"ssh_hostname", "SSHSession", "which snap", "snap list",
                                      "ssh_hostname", "make_sshfs_server_process">>

C6_Witness == has = "ready" /\ process = "set" /\ server

\* C7 (as claimed): whenever has_sshfs returned false, exactly one progress
\* reply is written, before the install command.
C7_Claim ==
    (has = "not_ready" /\ InTrace("install"))
        => Count("Write") = 1 /\ Index("Write") < Index("install")

\* C7 (amended): whenever has_sshfs returned false, one progress reply is
\* written if the server is non-null and none if it is null; a reply is never
\* written twice and never after the install command.
C7_ProgressIffServer ==
    /\ Count("Write") <= 1
    /\ (has = "not_ready" /\ pc # "progress") => Count("Write") = (IF server THEN 1 ELSE 0)
    /\ (InTrace("Write") /\ InTrace("install")) => Index("Write") < Index("install")
    /\ pc = "progress" => ~InTrace("install")

C7_Witness ==
    /\ has = "not_ready"
    /\ server
    /\ InTrace("install")
    /\ Count("Write") = 1

\* C8: has_sshfs runs "which snap", "snap list", "[ -e /snap ]" in this order
\* and stops at the first that decides: its outcome is the table of the three
\* exit codes, and when it throws, start fails at once with nothing installed.
C8_ProbeTable ==
    /\ \/ probes.snap = NotRun
       \/ probes.snap # 0 /\ has = "unsupported" /\ probes.list = NotRun /\ probes.dir = NotRun
       \/ probes.snap = 0 /\ probes.list = NotRun /\ has = "none" /\ probes.dir = NotRun
       \/ probes.snap = 0 /\ probes.list = 0 /\ has = "ready" /\ probes.dir = NotRun
       \/ probes.snap = 0 /\ probes.list \notin {0, NotRun} /\ probes.dir = NotRun /\ has = "none"
       \/ probes.snap = 0 /\ probes.list \notin {0, NotRun} /\ probes.dir = 0 /\ has = "not_ready"
       \/ /\ probes.snap = 0
          /\ probes.list \notin {0, NotRun}
          /\ probes.dir \notin {0, NotRun}
          /\ has = "unsupported"
    /\ probes.snap = NotRun => probes.list = NotRun /\ probes.dir = NotRun /\ has = "none"
    /\ InTrace("snap list") => Index("which snap") < Index("snap list")
    /\ InTrace("[ -e /snap ]") => Index("snap list") < Index("[ -e /snap ]")
    /\ Count("which snap") <= 1 /\ Count("snap list") <= 1 /\ Count("[ -e /snap ]") <= 1
    /\ has = "unsupported" =>
          /\ pc = "idle"
          /\ state = "Starting"
          /\ result.op = "start" /\ result.kind = "runtime_error"
          /\ ~InTrace("install") /\ ~InTrace("Write")
          /\ install_out = NotRun
          /\ process = "null"

C8_Witness ==
    /\ has = "unsupported"
    /\ probes.snap = 0 /\ probes.list # 0 /\ probes.dir \notin {0, NotRun}
    /\ result.msg = "Classic snap support is not enabled"

\* C9: the install command exiting non-zero and the install command not
\* exiting within the timeout give the caller of start the same
\* SSHFSMissingError; start_impl goes past the install only on exit code 0.
C9_InstallFailuresAlike ==
    /\ install_out \notin {NotRun, 0} =>
          /\ result = Thrown("start", "SSHFSMissingError", "", <<>>)
          /\ pc = "idle"
          /\ state = "Starting"
          /\ process = "null"
    /\ (InTrace("install") /\ (pc # "idle" \/ process = "set")) => install_out = 0

C9_Witness ==
    /\ install_out = Exitless
    /\ result.kind = "SSHFSMissingError"
    /\ pc = "idle"

\* C10: stop sends terminate and waits at most 5000 ms; it returns normally,
\* the handler Stopped, only with the subprocess gone; it throws "Failed to
\* terminate", quoting the standard error, only once 5000 ms have passed with the
\* subprocess alive; while it waits, one of the three can always happen.
C10_StopBounded ==
    /\ waited <= StopTimeoutMs
    /\ pc = "wait" => terminated >= 1
    /\ (result.op = "stop" /\ result.kind = "ok") => ~child.alive /\ state = "Stopped"
    /\ (result.op = "stop" /\ result.kind # "ok" /\ pc = "idle") =>
          /\ result.kind = "runtime_error"
          /\ result.msg = "Failed to terminate SSHFS mount process"
          /\ IsSuffix(result.stderr \o err_buf, all_err)
          /\ terminated = 1 => result.stderr \o err_buf = all_err
          /\ waited >= StopTimeoutMs
          /\ state = "Stopping"
    /\ state = "Stopped" => result = Ok("stop")
    /\ (pc = "wait" /\ ~child.alive) => ~ENABLED WaitTimeout
    /\ (pc = "wait" /\ child.alive /\ waited >= StopTimeoutMs) => ENABLED WaitTimeout
    /\ pc = "wait" => ENABLED (WaitTick \/ WaitFinished \/ WaitAlreadyFinished \/ WaitTimeout)

C10_Witness ==
    /\ result.op = "stop"
    /\ result.kind = "runtime_error"
    /\ result.stderr # <<>>
    /\ waited = StopTimeoutMs

\* C11: stop is idempotent: once a stop has succeeded and the handler is
\* Stopped, no later step (a second stop by a client, or the one the destructor
\* makes) sends another termination request, waits again, changes the result
\* of the stop or moves the handler out of Stopped.
C11_StopIdempotent ==
    [][state = "Stopped" =>
          /\ state' = "Stopped"
          /\ terminated' = terminated
          /\ waited' = waited
          /\ result' = result
          /\ pc' = "idle"
          /\ escaped' = escaped]_vars

C11_Witness ==
    /\ state = "Stopped"
    /\ result = Ok("stop")
    /\ dtor = "done"
    /\ terminated = dtor_entry
    /\ terminated = 1

\* C12: destroying the handler, whatever state it is in, makes one call of
\* stop, which sends at most one termination request; no exception leaves the
\* destructor: a stop that fails in it leaves only a warning in the log; and
\* the destructor is never stuck: while its stop runs a step of stop_impl can
\* always be taken, and the wait in it is bounded by the 5000 ms.
C12_DestructionContained ==
    /\ ~escaped
    /\ dtor = "no" => "Failed to gracefully stop mount" \notin log
    /\ dtor # "no" => terminated \in {dtor_entry, dtor_entry + 1}
    /\ dtor = "running" =>
          /\ pc \in {"terminate", "wait"}
          /\ waited <= StopTimeoutMs
          /\ ENABLED (Terminate \/ WaitTick \/ WaitFinished \/ WaitAlreadyFinished \/ WaitTimeout)
    /\ dtor = "done" =>
          /\ pc = "idle"
          /\ ~ENABLED (Terminate \/ Destroy \/ Stop)
          /\ "Failed to gracefully stop mount" \in log
                <=> (terminated = dtor_entry + 1 /\ result.op = "stop" /\ result.kind # "ok")

C12_Witness ==
    /\ dtor = "done"
    /\ state = "Stopping"
    /\ result.op = "stop"
    /\ result.kind = "runtime_error"
    /\ "Failed to gracefully stop mount" \in log

StartSteps == {"session", "which_snap", "snap_list", "snap_dir", "progress", "install", "hostname",
               "make_process", "connect", "process_start", "exec", "disconnect", "inspect"}

\* C13: whatever calls of start and stop are made, start_impl runs at most
\* once: the handler is inside start only on its first call, before any start
\* or stop has given a result; a call of start on a handler that has been
\* started is rejected and leaves it idle; so the session is opened, the probe
\* and the installer are run and a subprocess is launched at most once.
C13_StartsOnce ==
    /\ pc \in StartSteps => (state = "Starting" /\ last = "start" /\ result = NoResult)
    /\ state = "Constructed" => (trace = <<>> /\ process = "null" /\ pc = "idle")
    /\ last = "start rejected" => (state # "Constructed" /\ pc = "idle")
    /\ \A x \in {"SSHSession", "which snap", "install", "make_sshfs_server_process", "start"} :
          Count(x) <= 1

C13_Witness ==
    /\ last = "start rejected"
    /\ state = "Stopped"
    /\ Count("make_sshfs_server_process") = 1
    /\ Count("start") = 1

\* C14: when the session cannot be opened, start fails with the connection
\* failure after that one attempt: the session is never opened a second time,
\* and on a handler whose start failed so, nothing but the address lookup and
\* the session attempt was done: no probe, no progress reply, no install, no
\* launch, and the subprocess handle and the configured host stay unset.
C14_SessionFailureEndsStart ==
    /\ Count("SSHSession") <= 1
    /\ result.kind = "ConnectionFailure" =>
          /\ result = Thrown("start", "ConnectionFailure", "", <<>>)
          /\ state = "Starting"
          /\ pc = "idle"
          /\ trace = <<"ssh_hostname", "SSHSession">>
          /\ probes = [snap |-> NotRun, list |-> NotRun, dir |-> NotRun]
          /\ has = "none"
          /\ install_out = NotRun
          /\ process = "null"
          /\ config_host = ""
          /\ ~child.alive /\ child.code = NoExitCode
          /\ terminated = 0

C14_Witness ==
    /\ result.kind = "ConnectionFailure"
    /\ state = "Starting"
    /\ last = "start"
    /\ process = "null"

\* C15: a stop made after the subprocess has exited on its own cannot time
\* out: with the subprocess gone, the wait neither lets time pass nor throws,
\* it can only return, and a stop that has thrown "Failed to terminate" has
\* waited the whole 5000 ms on a live subprocess.
C15_StopAfterExit ==
    /\ (pc \in {"terminate", "wait"} /\ ~child.alive) =>
          /\ ~ENABLED WaitTimeout
          /\ ~ENABLED WaitTick
          /\ pc = "wait" => ENABLED (WaitFinished \/ WaitAlreadyFinished)
    /\ (pc = "idle" /\ result.op = "stop" /\ result.kind # "ok") => waited = StopTimeoutMs
    /\ (pc = "idle" /\ last \in {"stop", "destroy"} /\ terminated > dtor_entry /\ waited < StopTimeoutMs) =>
          (result = Ok("stop") /\ state = "Stopped")

C15_Witness ==
    /\ pc = "wait"
    /\ state = "Stopping"
    /\ FoundRunning
    /\ terminated = 1
    /\ waited = 0
    /\ ~child.alive
    /\ ~qproc.running

\* C16 as the spec states it: across the construction and one complete start
\* the address lookup ssh_hostname is performed one time.
C16_Claim ==
    /\ state = "Constructed" => Count("ssh_hostname") = 0
    /\ inspected.taken => Count("ssh_hostname") = 1

\* C16: the address is not looked up at construction, where the configured
\* host is left empty; a start looks it up twice, first to open the session
\* and again, just before the subprocess is made, to set the configured host,
\* which is assigned once; a complete start has made both lookups.
C16_HostResolvedInStart ==
    LET lookups == Count("ssh_hostname") IN
    /\ state = "Constructed" => (lookups = 0 /\ config_host = "")
    /\ lookups <= 2
    /\ trace # <<>> => trace[1] = "ssh_hostname"
    /\ config_host = "resolved" <=> lookups = 2
    /\ InTrace("make_sshfs_server_process") =>
          /\ config_host = "resolved"
          /\ trace[Index("make_sshfs_server_process") - 1] = "ssh_hostname"
    /\ inspected.taken => lookups = 2

C16_Witness ==
    /\ FoundRunning
    /\ state = "Running"
    /\ config_host = "resolved"
    /\ Count("ssh_hostname") = 2

\* C17 as the spec states it: the subprocess handle is null before the launch
\* and null again once stop has returned, stop has timed out or start has
\* failed after the launch.
C17_Claim ==
    /\ ~InTrace("make_sshfs_server_process") => process = "null"
    /\ (pc = "idle" /\ state \in {"Starting", "Stopping", "Stopped"}) => process = "null"

\* C17: the subprocess handle is null until make_sshfs_server_process has
\* been called and set for the rest of the handler's life: neither a start
\* that fails after the launch, nor a stop that returns, nor a stop that times
\* out resets it.
C17_HandleKeptAfterLaunch ==
    /\ process = "set" <=> InTrace("make_sshfs_server_process")
    /\ state = "Constructed" => process = "null"
    /\ inspected.taken => process = "set"
    /\ state \in {"Running", "Stopping", "Stopped"} => process = "set"
    /\ terminated > 0 => process = "set"

C17_Witness ==
    /\ state = "Stopped"
    /\ result = Ok("stop")
    /\ ~child.alive
    /\ process = "set"

(* s is the beginning of t *)
IsPrefix(s, t) == Len(s) <= Len(t) /\ SubSeq(t, 1, Len(s)) = s

(* the calls of a start that finds sshfs ready, and of one that installs it *)
ReadyOrder ==
    <<"ssh_hostname", "SSHSession", "which snap", "snap list",
      "ssh_hostname", "make_sshfs_server_process", "start">>

InstallOrder(progress) ==
    <<"ssh_hostname", "SSHSession", "which snap", "snap list", "[ -e /snap ]">>
        \o (IF progress THEN <<"Write">> ELSE <<>>)
        \o <<"install", "ssh_hostname", "make_sshfs_server_process", "start">>

\* C18: the calls of one start come in the order session, probe, then the
\* progress reply and the installer only when sshfs is not ready, then the
\* address and the configuration, the launch, the wait, the inspection; the
\* subprocess is made only once the probe said ready or the installer gave
\* 0; when the probe or the installer fails, the start fails with no
\* subprocess made; the installer is run at most once.
C18_StepsInOrder ==
    /\ \/ IsPrefix(trace, ReadyOrder)
       \/ IsPrefix(trace, InstallOrder(server))
    /\ InTrace("snap list") => (has = "ready" <=> probes.list = 0)
    /\ InTrace("install") => has = "not_ready"
    /\ InTrace("make_sshfs_server_process") =>
          \/ has = "ready" /\ install_out = NotRun
          \/ has = "not_ready" /\ install_out = 0
    /\ (has = "unsupported" \/ install_out \notin {NotRun, 0}) =>
          /\ pc = "idle"
          /\ state = "Starting"
          /\ result.op = "start" /\ result.kind # "ok"
          /\ process = "null"
          /\ ~InTrace("make_sshfs_server_process")
          /\ ~child.alive /\ child.code = NoExitCode
    /\ Count("install") <= 1
    /\ pc \in {"exec", "disconnect", "inspect"} => (InTrace("start") /\ ~inspected.taken)
    /\ pc \in {"disconnect", "inspect"} => quits > 0
    /\ inspected.taken => (InTrace("start") /\ quits > 0 /\ pc \notin StartSteps)

C18_Witness ==
    /\ trace = InstallOrder(TRUE)
    /\ has = "not_ready"
    /\ install_out = 0
    /\ FoundRunning
    /\ state = "Running"

\* C19 as the spec states it: with the subprocess's events delivered, a wait
\* whose subprocess has put the token on its standard output, or has exited,
\* comes to an end.
C19_Claim ==
    (pc = "exec" /\ (Contains(all_out, Connected) \/ child.code # NoExitCode)) ~> (pc # "exec")

(* the subprocess could not be started: the error event, and no exit *)
FailedToStart == InTrace("start") /\ ~child.alive /\ child.code = NoExitCode

\* C20: the two observers start registers on the subprocess only write log
\* records: a step of either leaves the lifecycle state, the position of
\* start and stop, their result, the subprocess handle, the configuration and
\* everything of the wait as they were; the records tell the exit state; and
\* the error event of a subprocess that failed to start, with its observer
\* run, leaves the wait blocked: no quit asked, no result.
C20_ObserversOnlyLog ==
    /\ [](/\ "stopped" \in log => (qproc.exit_code = 0 /\ ~qproc.error)
          /\ "stopped unsuccessfully" \in log =>
                (~qproc.running /\ (qproc.exit_code # 0 \/ qproc.error))
          /\ ("error" \in log \/ "error_occurred" \in obs) => qproc.error
          /\ FailedToStart =>
                /\ pc = "exec" /\ state = "Starting"
                /\ quits = 0 /\ ~token_seen
                /\ result = NoResult
                /\ ~inspected.taken)
    /\ [][(FinishedObserver \/ ErrorObserver) =>
             UNCHANGED <<pc, handlerVars, waitVars, childVars, stopVars, last, dtorVars>>]_vars
    /\ [][log' # log =>
             \/ /\ log' \ log \subseteq {"stopped", "stopped unsuccessfully", "error"}
                /\ UNCHANGED <<pc, state, result, process, config_host, quits, token_seen, inspected>>
             \/ /\ log' \ log = {"Failed to gracefully stop mount"}
                /\ dtor = "running"]_vars

C20_Witness ==
    /\ FailedToStart
    /\ "error" \in log
    /\ obs = {}
    /\ pc = "exec"
    /\ quits = 0


====
